---- MODULE Spec2Model ----
(***************************************************************************)
(* testdiff: the project index (src/project/index.rs), import resolution   *)
(* (src/project/resolve.rs), the impact engine (src/project/graph.rs) and  *)
(* the priority scorer (src/priority.rs).                                  *)
(*                                                                         *)
(* Strings are sequences of one-character strings, so that starts_with,    *)
(* contains, split, join and the byte order of String::cmp are computed    *)
(* and not assumed.  A path is the sequence of its components below the    *)
(* project root.  Option<T> is a sequence of length 0 (None) or 1 (Some).  *)
(***************************************************************************)
EXTENDS Naturals, Sequences, FiniteSets, TLC

(***************************************************************************)
(* Bounds of the model.                                                    *)
(***************************************************************************)
MaxChanged == 2

MaxLimit == 1

MaxCap == 1

(***************************************************************************)
(* Option<T>.                                                              *)
(***************************************************************************)
None == <<>>

Some(x) == <<x>>

IsSome(o) == o # <<>>

Unwrap(o) == o[1]

(***************************************************************************)
(* Strings.                                                                *)
(***************************************************************************)
\* The bytes of the characters the model uses: String::cmp compares bytes.
CharCode ==
  [c \in {"*", ".", "/", "_", "a", "b", "c", "e", "f", "g", "i", "k", "n",
          "o", "p", "r", "s", "t", "v", "x", "y"} |->
     CASE c = "*" -> 42 [] c = "." -> 46 [] c = "/" -> 47 [] c = "_" -> 95
       [] c = "a" -> 97 [] c = "b" -> 98 [] c = "c" -> 99 [] c = "e" -> 101
       [] c = "f" -> 102 [] c = "g" -> 103 [] c = "i" -> 105 [] c = "k" -> 107
       [] c = "n" -> 110 [] c = "o" -> 111 [] c = "p" -> 112 [] c = "r" -> 114
       [] c = "s" -> 115 [] c = "t" -> 116 [] c = "v" -> 118 [] c = "x" -> 120
       [] c = "y" -> 121]

Min(a, b) == IF a <= b THEN a ELSE b

\* a < b for strings (Ord for String: lexicographic over bytes).
StrLess(a, b) ==
  \/ Len(a) < Len(b) /\ SubSeq(b, 1, Len(a)) = a
  \/ \E i \in 1..Min(Len(a), Len(b)) :
       /\ SubSeq(a, 1, i - 1) = SubSeq(b, 1, i - 1)
       /\ CharCode[a[i]] < CharCode[b[i]]

StartsWith(s, p) == Len(p) <= Len(s) /\ SubSeq(s, 1, Len(p)) = p

EndsWith(s, p) == Len(p) <= Len(s) /\ SubSeq(s, Len(s) - Len(p) + 1, Len(s)) = p

Contains(s, p) ==
  Len(p) <= Len(s) /\ \E i \in 0..(Len(s) - Len(p)) : SubSeq(s, i + 1, i + Len(p)) = p

\* str::split(c): the pieces between the occurrences of c ("" gives [""]).
RECURSIVE Split(_, _)
Split(s, c) ==
  IF \A i \in 1..Len(s) : s[i] # c
    THEN <<s>>
    ELSE LET i == CHOOSE j \in 1..Len(s) :
                    s[j] = c /\ \A k \in 1..(j - 1) : s[k] # c
         IN  <<SubSeq(s, 1, i - 1)>> \o Split(SubSeq(s, i + 1, Len(s)), c)

\* [String]::join(c).
RECURSIVE Join(_, _)
Join(parts, c) ==
  IF parts = <<>> THEN <<>>
  ELSE IF Len(parts) = 1 THEN parts[1]
  ELSE parts[1] \o <<c>> \o Join(Tail(parts), c)

\* str::replace(a, b) for single characters.
Replace(s, a, b) == [i \in 1..Len(s) |-> IF s[i] = a THEN b ELSE s[i]]

Front(s) == SubSeq(s, 1, Len(s) - 1)

Last(s) == s[Len(s)]

\* The index of the last "." of a file name, 0 when it has none.
LastDot(name) ==
  IF \A i \in 1..Len(name) : name[i] # "."
    THEN 0
    ELSE CHOOSE j \in 1..Len(name) :
           name[j] = "." /\ \A k \in (j + 1)..Len(name) : name[k] # "."

(***************************************************************************)
(* The literals of the source.                                             *)
(***************************************************************************)
L_py == <<"p", "y">>

L_dot_py == <<".", "p", "y">>

L_init == <<"_", "_", "i", "n", "i", "t", "_", "_">>

L_init_py == L_init \o L_dot_py

L_test_ == <<"t", "e", "s", "t", "_">>

L_test_py == <<"_", "t", "e", "s", "t", ".", "p", "y">>

L_star == <<"*">>

L_underscore == <<"_">>

(***************************************************************************)
(* Paths (std::path / camino).                                             *)
(***************************************************************************)
\* Path::file_name: the last component.
FileName(path) == IF path = <<>> THEN None ELSE Some(Last(path))

\* Path::file_stem: the file name up to its last "." (all of it when the only
\* "." is the first character, or when there is none).
FileStem(path) ==
  IF path = <<>> THEN None
  ELSE LET name == Last(path)
           d    == LastDot(name)
       IN  IF d <= 1 THEN Some(name) ELSE Some(SubSeq(name, 1, d - 1))

\* Path::extension: what follows the last "." of the file name.
Extension(path) ==
  IF path = <<>> THEN None
  ELSE LET name == Last(path)
           d    == LastDot(name)
       IN  IF d <= 1 THEN None ELSE Some(SubSeq(name, d + 1, Len(name)))

\* A path below the root as text: its components joined by "/".
PathStr(path) == Join(path, "/")

\* root.join(text): the components of a relative path given as text.
PathOf(text) == Split(text, "/")

(***************************************************************************)
(* The project tree.  A file of the tree is absent, a source file with the *)
(* import statements the parser finds in it, a file that does not parse    *)
(* ("garbled"), or a file that cannot be read ("unreadable").              *)
(***************************************************************************)
N_pkg == <<"p", "k", "g">>

N_tests == <<"t", "e", "s", "t", "s">>

N_foo == <<"f", "o", "o">>

N_svc == <<"s", "v", "c">>

N_test_foo == L_test_ \o N_foo

N_x == <<"x">>

N_conftest == <<"c", "o", "n", "f", "t", "e", "s", "t">>

N_lib == <<"l", "i", "b">>

N_sub == <<"s", "u", "b">>

N_mod == <<"m", "o", "d">>

\* One byte that is not valid UTF-8, as an element of a file name.
BadByte == "0xFF"

N_bad == <<"b", BadByte>>

P_pkg_init == <<N_pkg, L_init_py>>

P_pkg_foo == <<N_pkg, N_foo \o L_dot_py>>

P_pkg_svc == <<N_pkg, N_svc \o L_dot_py>>

P_test_foo == <<N_tests, N_test_foo \o L_dot_py>>

P_svc_test == <<N_tests, N_pkg \o L_underscore \o N_svc \o L_test_py>>

P_conftest == <<N_tests, N_conftest \o L_dot_py>>

\* Paths that are never files of the tree: a module deleted from the top
\* level and a module deleted from below tests/test_foo/.
P_top_foo == <<N_foo \o L_dot_py>>

P_deleted_x == <<N_tests, N_test_foo, N_x \o L_dot_py>>

\* A layout in which a package (lib/sub/) lies in a directory that is not one,
\* next to a module of the directory's name (lib.py) and a file whose name is
\* not valid UTF-8.
P_lib == <<N_lib \o L_dot_py>>

P_lib_sub_init == <<N_lib, N_sub, L_init_py>>

P_lib_sub_mod == <<N_lib, N_sub, N_mod \o L_dot_py>>

P_lib_bad == <<N_lib, N_bad \o L_dot_py>>

MainFiles == {P_pkg_init, P_pkg_foo, P_pkg_svc, P_test_foo, P_svc_test, P_conftest}

LibFiles == {P_lib, P_lib_sub_init, P_lib_sub_mod, P_lib_bad}

FileUniverse == MainFiles \cup LibFiles

ChangedUniverse == {P_pkg_foo, P_test_foo, P_top_foo, P_deleted_x}

\* ImportSpec values (resolve.rs:10-15) as ImportCollector builds them.
PlainImport(module) ==
  [level |-> 0, module |-> Some(module), name |-> None, kind |-> "Import"]

FromImport(level, module, name) ==
  [level |-> level, module |-> module, name |-> Some(name), kind |-> "ImportFrom"]

Absent == [kind |-> "absent", stmts |-> <<>>]

Garbled == [kind |-> "garbled", stmts |-> <<>>]

Unreadable == [kind |-> "unreadable", stmts |-> <<>>]

Source(stmts) == [kind |-> "source", stmts |-> stmts]

\* What each file of the tree may hold.
Contents(p) ==
  CASE p = P_pkg_init -> {Absent, Source(<<>>)}
    [] p = P_pkg_foo  -> {Absent, Source(<<>>), Garbled}
    [] p = P_pkg_svc  -> {Absent, Source(<<FromImport(1, None, N_foo)>>)}
    [] p = P_test_foo -> {Source(<<FromImport(0, Some(N_pkg), N_foo)>>)}
    [] p = P_svc_test -> {Absent, Source(<<FromImport(0, Some(N_pkg), N_svc)>>),
                          Source(<<PlainImport(N_foo), FromImport(0, Some(N_pkg), N_foo),
                                   FromImport(0, Some(N_pkg), N_svc)>>)}
    [] p = P_conftest -> {Source(<<FromImport(0, Some(N_pkg), N_svc)>>)}
    [] p \in LibFiles -> {Absent}

\* What each file of the lib/ layout may hold when the index alone is built.
LibContents(p) ==
  CASE p = P_lib          -> {Absent, Source(<<>>)}
    [] p = P_lib_sub_init -> {Absent, Source(<<>>), Unreadable}
    [] p = P_lib_sub_mod  -> {Absent, Source(<<>>), Garbled, Unreadable}
    [] p = P_lib_bad      -> {Absent, Source(<<>>)}
    [] p \in MainFiles    -> {Absent}

VARIABLES fs, scanned, modules, path_to_module, index_warnings, pc,
          changed, max, distance_limit, quiet, warn_as_error,
          warnings, reverse, stderr, ci, impacted_modules, distances, queue,
          changed_leaves, tests, outcome, first_run, pure_call, pure_result

vars == <<fs, scanned, modules, path_to_module, index_warnings, pc,
          changed, max, distance_limit, quiet, warn_as_error,
          warnings, reverse, stderr, ci, impacted_modules, distances, queue,
          changed_leaves, tests, outcome, first_run, pure_call, pure_result>>

indexVars == <<scanned, modules, path_to_module, index_warnings>>

argVars == <<changed, max, distance_limit, quiet, warn_as_error>>

runVars == <<warnings, reverse, stderr, ci, impacted_modules, distances, queue,
             changed_leaves, tests, outcome>>

\* Utf8PathBuf::from_path_buf succeeds: every byte of the path is valid UTF-8.
IsUtf8(path) ==
  \A i \in 1..Len(path) : \A j \in 1..Len(path[i]) : path[i][j] # BadByte

\* Path::exists.
Exists(path) == path \in FileUniverse /\ fs[path].kind # "absent"

(***************************************************************************)
(* resolve.rs                                                              *)
(***************************************************************************)
\* The names of the ancestor directories that hold a package marker,
\* outermost first (resolve.rs:18-32).  No directory above the files of the
\* tree holds a marker, so the walk ends at the root at the latest.
RECURSIVE PackageParts(_)
PackageParts(dir) ==
  IF dir # <<>> /\ Exists(dir \o <<L_init_py>>)
    THEN PackageParts(Front(dir)) \o <<Last(dir)>>
    ELSE <<>>

StripSuffix(s, suffix) ==
  IF EndsWith(s, suffix) THEN SubSeq(s, 1, Len(s) - Len(suffix)) ELSE s

module_name(path) ==
  LET package_parts == PackageParts(Front(path))
      stem == IF IsSome(FileStem(path)) THEN Unwrap(FileStem(path)) ELSE <<>>
  IN  IF stem = L_init THEN Join(package_parts, ".")
      ELSE IF package_parts # <<>> THEN Join(package_parts \o <<stem>>, ".")
      ELSE Join(Front(path) \o <<StripSuffix(Last(path), L_dot_py)>>, ".")

RECURSIVE DropLast(_, _)
DropLast(parts, n) == IF n = 0 THEN parts ELSE DropLast(Front(parts), n - 1)

\* A resolution without the package-marker exception, which C13 rules out:
\* level 1 in a package marker removes a component like anywhere else.
resolve_import_AlwaysPop(current_module, is_package, spec) ==
  LET parts == Split(current_module, ".")
      base  == IF spec.level > 0
                 THEN DropLast(parts, Min(spec.level, Len(parts)))
                 ELSE <<>>
      withModule == IF IsSome(spec.module) /\ Unwrap(spec.module) # <<>>
                      THEN base \o Split(Unwrap(spec.module), ".")
                      ELSE base
      target_parts == IF spec.kind = "ImportFrom" /\ IsSome(spec.name)
                           /\ Unwrap(spec.name) # L_star
                        THEN withModule \o <<Unwrap(spec.name)>>
                        ELSE withModule
  IN  IF target_parts = <<>> THEN None ELSE Some(Join(target_parts, "."))

resolve_import(current_module, is_package, spec) ==
  LET parts == Split(current_module, ".")
      base  == IF spec.level > 0
                 THEN IF ~(is_package /\ spec.level = 1)
                        THEN DropLast(parts, Min(spec.level, Len(parts)))
                        ELSE parts
                 ELSE <<>>
      withModule == IF IsSome(spec.module) /\ Unwrap(spec.module) # <<>>
                      THEN base \o Split(Unwrap(spec.module), ".")
                      ELSE base
      target_parts == IF spec.kind = "ImportFrom" /\ IsSome(spec.name)
                           /\ Unwrap(spec.name) # L_star
                        THEN withModule \o <<Unwrap(spec.name)>>
                        ELSE withModule
  IN  IF target_parts = <<>> THEN None ELSE Some(Join(target_parts, "."))

(***************************************************************************)
(* utils.rs                                                                *)
(***************************************************************************)
is_python_file(path) == IsSome(Extension(path)) /\ Unwrap(Extension(path)) = L_py

\* A looser test-file rule, which C4 rules out: any file name containing
\* "test".
is_test_file_AnyTestInName(path) ==
  LET filename == IF IsSome(FileName(path)) THEN Unwrap(FileName(path)) ELSE <<>>
  IN  Contains(filename, <<"t", "e", "s", "t">>)

is_test_file(path) ==
  LET filename == IF IsSome(FileName(path)) THEN Unwrap(FileName(path)) ELSE <<>>
  IN  StartsWith(filename, L_test_) \/ EndsWith(filename, L_test_py)

(***************************************************************************)
(* index.rs                                                                *)
(***************************************************************************)
Warning(kind, subject, module) == [kind |-> kind, subject |-> subject, module |-> module]

\* filter_map over the collected ImportSpecs (index.rs:103-107).
RECURSIVE ResolveAll(_, _, _)
ResolveAll(module, is_package, stmts) ==
  IF stmts = <<>> THEN <<>>
  ELSE LET r == resolve_import(module, is_package, stmts[1])
       IN  r \o ResolveAll(module, is_package, Tail(stmts))

\* A parse_file that lets a read error pass unreported, which C20 rules out.
parse_file_UnreadableSilent(path) ==
  LET module     == module_name(path)
      is_package == IsSome(FileStem(path)) /\ Unwrap(FileStem(path)) = L_init
  IN  CASE ~IsUtf8(path) \/ fs[path].kind = "unreadable" ->
             [info |-> None, pushed |-> <<>>, err |-> None]
        [] fs[path].kind = "garbled" ->
             [info |-> None, err |-> None,
              pushed |-> <<Warning("Failed to parse", PathStr(path), <<>>)>>]
        [] OTHER ->
             [info |-> Some([module |-> module, path |-> path,
                             imports |-> ResolveAll(module, is_package, fs[path].stmts)]),
              pushed |-> <<>>, err |-> None]

\* ProjectIndex::parse_file: the ModuleInfo (or None), the warnings it pushes
\* and the error it returns (or None).
parse_file(path) ==
  LET module     == module_name(path)
      is_package == IsSome(FileStem(path)) /\ Unwrap(FileStem(path)) = L_init
  IN  CASE ~IsUtf8(path) ->
             [info |-> None, pushed |-> <<>>, err |-> None]
        [] fs[path].kind = "unreadable" ->
             [info |-> None, pushed |-> <<>>,
              err |-> Some(Warning("Failed to read", PathStr(path), <<>>))]
        [] fs[path].kind = "garbled" ->
             [info |-> None, err |-> None,
              pushed |-> <<Warning("Failed to parse", PathStr(path), <<>>)>>]
        [] OTHER ->
             [info |-> Some([module |-> module, path |-> path,
                             imports |-> ResolveAll(module, is_package, fs[path].stmts)]),
              pushed |-> <<>>, err |-> None]

\* Nothing is indexed and no call is under way.
Blank ==
  /\ scanned = {}
  /\ modules = <<>>
  /\ path_to_module = <<>>
  /\ index_warnings = <<>>
  /\ changed = <<>>
  /\ max = None
  /\ distance_limit = None
  /\ quiet = FALSE
  /\ warn_as_error = FALSE
  /\ warnings = <<>>
  /\ reverse = <<>>
  /\ stderr = <<>>
  /\ ci = 1
  /\ impacted_modules = {}
  /\ distances = <<>>
  /\ queue = <<>>
  /\ changed_leaves = {}
  /\ tests = <<>>
  /\ outcome = [kind |-> "none", count |-> 0, first |-> None]
  /\ first_run = None

\* The trees over `files` that hold what `kinds` allows, nothing elsewhere.
Trees(files, kinds) ==
  {[p \in FileUniverse |-> IF p \in files THEN g[p] ELSE Absent] :
     g \in {h \in [files -> UNION {kinds[p] : p \in files}] :
              \A p \in files : h[p] \in kinds[p]}}

Init ==
  /\ fs \in Trees(MainFiles, [p \in MainFiles |-> Contents(p)])
  /\ pc = "build"
  /\ Blank
  /\ pure_call = None
  /\ pure_result = None

\* One entry of the walk of ProjectIndex::build (index.rs:34-62): the walker
\* yields the files of the tree in an order the code does not choose.
ScanFile(p) ==
  /\ pc = "build"
  /\ p \in FileUniverse \ scanned
  /\ Exists(p)
  /\ is_python_file(p)
  /\ LET r == parse_file(p)
     IN  /\ modules' = IF IsSome(r.info)
                         THEN (Unwrap(r.info).module :> Unwrap(r.info)) @@ modules
                         ELSE modules
         /\ path_to_module' = IF IsSome(r.info)
                                THEN (p :> Unwrap(r.info).module) @@ path_to_module
                                ELSE path_to_module
         /\ index_warnings' = index_warnings \o r.pushed \o r.err
  /\ scanned' = scanned \cup {p}
  /\ UNCHANGED <<fs, pc, first_run, pure_call, pure_result>>
  /\ UNCHANGED argVars
  /\ UNCHANGED runVars

\* The walk is over: build returns the index (index.rs:64-69).
BuildDone ==
  /\ pc = "build"
  /\ \A p \in FileUniverse : Exists(p) => p \in scanned
  /\ pc' = "built"
  /\ UNCHANGED <<fs, first_run, pure_call, pure_result>>
  /\ UNCHANGED indexVars
  /\ UNCHANGED argVars
  /\ UNCHANGED runVars

(***************************************************************************)
(* priority.rs                                                             *)
(***************************************************************************)
\* A scan that knows the substring rule only, which C11 rules out: no file
\* name scores 0.
RECURSIVE ScanLeaves_SubstringOnly(_, _, _)
ScanLeaves_SubstringOnly(filename, scan, best) ==
  IF scan = <<>> THEN best
  ELSE ScanLeaves_SubstringOnly(filename, Tail(scan),
                                IF Contains(filename, scan[1]) THEN Min(best, 1) ELSE best)

\* A scan without the substring rule, which C22 rules out: a file name that
\* merely contains a leaf keeps the score 2.
RECURSIVE ScanLeaves_PrefixRulesOnly(_, _, _)
ScanLeaves_PrefixRulesOnly(filename, scan, best) ==
  IF scan = <<>> THEN best
  ELSE LET leaf == scan[1]
       IN  IF \/ StartsWith(filename, L_test_ \o leaf)
              \/ Contains(filename, L_underscore \o leaf)
             THEN 0
             ELSE ScanLeaves_PrefixRulesOnly(filename, Tail(scan), best)

\* A scan that stops at the first leaf found in the file name, which C18
\* rules out: its value depends on the order of the leaves.
RECURSIVE ScanLeaves_StopAtFirstHit(_, _, _)
ScanLeaves_StopAtFirstHit(filename, scan, best) ==
  IF scan = <<>> THEN best
  ELSE LET leaf == scan[1]
       IN  IF \/ StartsWith(filename, L_test_ \o leaf)
              \/ Contains(filename, L_underscore \o leaf)
             THEN 0
             ELSE IF Contains(filename, leaf) THEN 1
             ELSE ScanLeaves_StopAtFirstHit(filename, Tail(scan), best)

\* The loop of priority() (priority.rs:17-25) over the leaves in the order
\* `scan` in which the HashSet yields them, from the running value `best`.
RECURSIVE ScanLeaves(_, _, _)
ScanLeaves(filename, scan, best) ==
  IF scan = <<>> THEN best
  ELSE LET leaf == scan[1]
       IN  IF \/ StartsWith(filename, L_test_ \o leaf)
              \/ Contains(filename, L_underscore \o leaf)
             THEN 0
             ELSE ScanLeaves(filename, Tail(scan),
                             IF Contains(filename, leaf) THEN Min(best, 1) ELSE best)

priority(path, distance, scan) ==
  LET filename == Last(Split(path, "/"))
  IN  [filename_match |-> ScanLeaves(filename, scan, 2), distance |-> distance]

\* Ord for Priority (derived: filename_match, then distance).
PriorityLess(a, b) ==
  \/ a.filename_match < b.filename_match
  \/ a.filename_match = b.filename_match /\ a.distance < b.distance

(***************************************************************************)
(* graph.rs                                                                *)
(***************************************************************************)
OrElse(a, b) == IF IsSome(a) THEN a ELSE b

resolve_known_module(import) ==
  IF import \in DOMAIN modules THEN Some(import) ELSE None

heuristic_map(import) ==
  LET candidate == Replace(import, ".", "/")
      file      == PathOf(candidate \o L_dot_py)
      init      == PathOf(candidate \o <<"/">> \o L_init_py)
  IN  IF Exists(file) /\ file \in DOMAIN path_to_module
        THEN Some(path_to_module[file])
      ELSE IF Exists(init) /\ init \in DOMAIN path_to_module
        THEN Some(path_to_module[init])
      ELSE None

RECURSIVE TrimParts(_)
TrimParts(parts) ==
  IF Len(parts) > 1
    THEN LET candidate == Join(Front(parts), ".")
         IN  IF candidate \in DOMAIN modules
               THEN Some(candidate)
               ELSE TrimParts(Front(parts))
    ELSE None

trim_to_known_module(import) == TrimParts(Split(import, "."))

\* A chain that truncates before it tries the path heuristic, which C17
\* rules out.
ResolveChain_TruncationFirst(import) ==
  OrElse(OrElse(resolve_known_module(import), trim_to_known_module(import)),
         heuristic_map(import))

\* The chain of graph.rs:38-41 and graph.rs:85-88.
ResolveChain(import) ==
  OrElse(OrElse(resolve_known_module(import), heuristic_map(import)),
         trim_to_known_module(import))

\* graph.rs:29-33.
top_levels == {Split(name, ".")[1] : name \in DOMAIN modules}

\* The target of one recorded import (graph.rs:38-50): "" when the chain fails.
ImportTarget(import) ==
  LET r == ResolveChain(import) IN IF IsSome(r) THEN Unwrap(r) ELSE <<>>

\* A warning for every unresolved import, which C16 rules out: imports from
\* outside the project are reported too.
ImportWarning_Always(info, import) ==
  IF ~IsSome(ResolveChain(import))
    THEN <<Warning("Unresolved import", import, info.module)>>
    ELSE <<>>

\* The warning one recorded import pushes (graph.rs:42-48).
ImportWarning(info, import) ==
  IF ~IsSome(ResolveChain(import)) /\ Split(import, ".")[1] \in top_levels
    THEN <<Warning("Unresolved import", import, info.module)>>
    ELSE <<>>

RECURSIVE ImportWarnings(_, _)
ImportWarnings(info, imports) ==
  IF imports = <<>> THEN <<>>
  ELSE ImportWarning(info, imports[1]) \o ImportWarnings(info, Tail(imports))

\* A reverse graph that files an unresolved import under its own name, which
\* C15 rules out: a raw seed then has importers.
ReverseGraphOf_KeepsUnresolved ==
  LET TargetOf(import) == IF IsSome(ResolveChain(import))
                            THEN Unwrap(ResolveChain(import)) ELSE import
      TargetsOf(m) == {TargetOf(modules[m].imports[i]) :
                         i \in 1..Len(modules[m].imports)}
  IN  [t \in UNION {TargetsOf(m) : m \in DOMAIN modules} |->
         {m \in DOMAIN modules : t \in TargetsOf(m)}]

\* The import graph in the forward direction, which C1 rules out: the entry
\* of each importer holds the modules it imports.
ReverseGraphOf_Forward ==
  LET TargetsOf(m) == {ImportTarget(modules[m].imports[i]) :
                         i \in 1..Len(modules[m].imports)} \ {<<>>}
  IN  [m \in {n \in DOMAIN modules : TargetsOf(n) # {}} |-> TargetsOf(m)]

\* The reverse graph the loop of graph.rs:35-59 ends with: the entry of each
\* non-empty target holds the modules that import it.
ReverseGraphOf ==
  LET TargetsOf(m) == {ImportTarget(modules[m].imports[i]) :
                         i \in 1..Len(modules[m].imports)}
  IN  [t \in UNION {TargetsOf(m) : m \in DOMAIN modules} \ {<<>>} |->
         {m \in DOMAIN modules : t \in TargetsOf(m)}]

\* The orders in which a HashSet or HashMap may yield the elements of S.
RECURSIVE Orders(_)
Orders(S) ==
  IF S = {} THEN {<<>>}
  ELSE UNION {{<<x>> \o rest : rest \in Orders(S \ {x})} : x \in S}

RECURSIVE Concat(_)
Concat(seqs) == IF seqs = <<>> THEN <<>> ELSE seqs[1] \o Concat(Tail(seqs))

OptionsOver(lo, hi) == {None} \cup {Some(n) : n \in lo..hi}

SeqsUpTo(S, n) == UNION {[1..k -> S] : k \in 0..n}

\* impacted_tests is entered (graph.rs:19-27): the arguments are bound and
\* the index's warnings are cloned.
Call ==
  /\ pc = "built"
  /\ changed' \in SeqsUpTo(ChangedUniverse, MaxChanged)
  /\ max' \in OptionsOver(1, MaxCap)
  /\ distance_limit' \in OptionsOver(0, MaxLimit)
  /\ quiet' \in BOOLEAN
  /\ warn_as_error' \in BOOLEAN
  /\ warnings' = index_warnings
  /\ pc' = "reverse"
  /\ UNCHANGED <<fs, first_run, pure_call, pure_result>>
  /\ UNCHANGED indexVars
  /\ UNCHANGED <<reverse, stderr, ci, impacted_modules, distances, queue,
                 changed_leaves, tests, outcome>>

\* graph.rs:29-65: the reverse graph is built, the unresolved imports are
\* recorded in the order the modules map yields its modules (only the
\* modules that push a warning make that order visible), and the warnings
\* are printed unless quiet.
ReverseGraph ==
  /\ pc = "reverse"
  /\ \E order \in Orders({m \in DOMAIN modules :
                            ImportWarnings(modules[m], modules[m].imports) # <<>>}) :
       warnings' = warnings \o
         Concat([i \in 1..Len(order) |->
                   ImportWarnings(modules[order[i]], modules[order[i]].imports)])
  /\ reverse' = ReverseGraphOf
  /\ stderr' = IF quiet THEN stderr ELSE stderr \o warnings'
  /\ ci' = 1
  /\ pc' = IF changed = <<>> THEN "bfs" ELSE "seed"
  /\ UNCHANGED <<fs, first_run, pure_call, pure_result>>
  /\ UNCHANGED indexVars
  /\ UNCHANGED argVars
  /\ UNCHANGED <<impacted_modules, distances, queue, changed_leaves, tests, outcome>>

\* Seeding with the guessed identity as it stands, which C5 rules out: the
\* exact / heuristic / truncation chain is left out.
SeedOf_RawGuess(path) ==
  IF path \in DOMAIN path_to_module THEN Some(path_to_module[path])
  ELSE IF IsSome(Extension(path)) /\ Unwrap(Extension(path)) = L_py
    THEN Some(module_name(path))
  ELSE None

\* The module one changed path seeds (graph.rs:72-89), or None for a path
\* that is neither indexed nor a .py file.
SeedOf(path) ==
  IF path \in DOMAIN path_to_module THEN Some(path_to_module[path])
  ELSE IF IsSome(Extension(path)) /\ Unwrap(Extension(path)) = L_py
    THEN LET guessed_module == module_name(path)
         IN  OrElse(ResolveChain(guessed_module), Some(guessed_module))
  ELSE None

\* One pass of the loop over the changed paths (graph.rs:71-103).
Seed ==
  /\ pc = "seed"
  /\ LET path   == changed[ci]
         target == SeedOf(path)
         fresh  == IsSome(target) /\ Unwrap(target) \notin impacted_modules
     IN  /\ impacted_modules' = IF fresh THEN impacted_modules \cup {Unwrap(target)}
                                         ELSE impacted_modules
         /\ distances' = IF fresh THEN (Unwrap(target) :> 0) @@ distances ELSE distances
         /\ queue' = IF fresh THEN Append(queue, Unwrap(target)) ELSE queue
         /\ stderr' = IF path \notin DOMAIN path_to_module /\ IsSome(target) /\ ~quiet
                        THEN Append(stderr, Warning("changed file not indexed",
                                                    PathStr(path), module_name(path)))
                        ELSE stderr
  /\ ci' = ci + 1
  /\ pc' = IF ci = Len(changed) THEN "bfs" ELSE "seed"
  /\ UNCHANGED <<fs, first_run, pure_call, pure_result>>
  /\ UNCHANGED indexVars
  /\ UNCHANGED argVars
  /\ UNCHANGED <<warnings, reverse, changed_leaves, tests, outcome>>

\* A traversal that ignores the limit, which C14 rules out.
Pruned_Never(current_dist) == FALSE

\* The limit read as exclusive, which C2 rules out: a module at the limit is
\* still expanded.
Pruned_BeyondLimitOnly(current_dist) ==
  IsSome(distance_limit) /\ current_dist > Unwrap(distance_limit)

\* A limit of 0 read as no limit, which C3 rules out.
Pruned_ZeroIsUnlimited(current_dist) ==
  /\ IsSome(distance_limit)
  /\ Unwrap(distance_limit) > 0
  /\ current_dist >= Unwrap(distance_limit)

\* graph.rs:107-111: the limit keeps a module at or beyond it from being
\* expanded.
Pruned(current_dist) ==
  IsSome(distance_limit) /\ current_dist >= Unwrap(distance_limit)

\* A traversal that takes as new every importer that is not waiting in the
\* queue, which C21 rules out: a module that was dequeued is enqueued again.
Unvisited_NotQueued(children) == children \ {queue[i] : i \in 1..Len(queue)}

\* A traversal that takes every importer as new, which C12 rules out: a
\* module met again gets its distance written again.
Unvisited_Any(children) == children

\* graph.rs:115: impacted_modules.insert(dep) is true for the importers that
\* were not visited before.
Unvisited(children) == children \ impacted_modules

\* One pass of the traversal loop (graph.rs:105-122): the front of the queue
\* is popped and, unless the limit prunes it, its importers are visited in the
\* order the HashSet yields them.
Bfs ==
  /\ pc = "bfs"
  /\ queue # <<>>
  /\ LET module       == Head(queue)
         current_dist == IF module \in DOMAIN distances THEN distances[module] ELSE 0
         children     == IF ~Pruned(current_dist) /\ module \in DOMAIN reverse
                           THEN reverse[module] ELSE {}
         fresh        == Unvisited(children)
     IN  \E order \in Orders(fresh) :
           /\ impacted_modules' = impacted_modules \cup fresh
           /\ distances' = [dep \in fresh |-> current_dist + 1] @@ distances
           /\ queue' = Tail(queue) \o order
  /\ UNCHANGED <<fs, first_run, pure_call, pure_result>>
  /\ UNCHANGED indexVars
  /\ UNCHANGED argVars
  /\ UNCHANGED <<pc, warnings, reverse, stderr, ci, changed_leaves, tests, outcome>>

\* distances.get(&module).copied().unwrap_or(usize::MAX): every impacted
\* module has a distance, so the default is never taken.
DistanceOf(module) == distances[module]

\* graph.rs:124-160: the leaves of the visited modules, and one TestResult for
\* each visited module of the index whose file is a test file, in the order
\* the visited set yields them.  The leaf set is scanned in one order; a leaf
\* that occurs in no selected file name changes nothing wherever the scan
\* meets it, so the scan is taken over the other leaves.
Select ==
  /\ pc = "bfs"
  /\ queue = <<>>
  /\ changed_leaves' = {Last(Split(m, ".")) : m \in DOMAIN distances \cap impacted_modules}
  /\ LET selected == {m \in impacted_modules \cap DOMAIN modules :
                        is_test_file(modules[m].path)}
         seen     == {leaf \in changed_leaves' :
                        \E m \in selected : Contains(Last(modules[m].path), leaf)}
     IN  \E order \in Orders(selected) :
           \E scan \in Orders(seen) :
             tests' = [i \in 1..Len(order) |->
                         LET rel == PathStr(modules[order[i]].path)
                         IN  [path     |-> rel,
                              priority |-> priority(rel, DistanceOf(order[i]), scan),
                              distance |-> DistanceOf(order[i])]]
  /\ pc' = "sort"
  /\ UNCHANGED <<fs, first_run, pure_call, pure_result>>
  /\ UNCHANGED indexVars
  /\ UNCHANGED argVars
  /\ UNCHANGED <<warnings, reverse, stderr, ci, impacted_modules, distances, queue, outcome>>

\* A comparator without the path tie-break, which C7 rules out.
TestLess_PriorityOnly(a, b) == PriorityLess(a.priority, b.priority)

\* The comparator of tests.sort_by (graph.rs:162-166): a before b.
TestLess(a, b) ==
  \/ PriorityLess(a.priority, b.priority)
  \/ a.priority = b.priority /\ StrLess(a.path, b.path)

\* slice::sort_by is stable: an element goes behind the elements it is not
\* less than.
RECURSIVE InsertSorted(_, _)
InsertSorted(x, s) ==
  IF s = <<>> THEN <<x>>
  ELSE IF TestLess(x, s[1]) THEN <<x>> \o s
  ELSE <<s[1]>> \o InsertSorted(x, Tail(s))

RECURSIVE SortBy(_)
SortBy(s) == IF s = <<>> THEN <<>> ELSE InsertSorted(Last(s), SortBy(Front(s)))

\* A cut one entry late, which C8 rules out.
Truncate_OneMore(s, limit) == SubSeq(s, 1, Min(limit + 1, Len(s)))

\* Vec::truncate.
Truncate(s, limit) == SubSeq(s, 1, Min(limit, Len(s)))

\* graph.rs:162-169: the tests are sorted, and cut to the cap when one is given.
SortTruncate ==
  /\ pc = "sort"
  /\ tests' = IF IsSome(max) THEN Truncate(SortBy(tests), Unwrap(max)) ELSE SortBy(tests)
  /\ pc' = "return"
  /\ UNCHANGED <<fs, first_run, pure_call, pure_result>>
  /\ UNCHANGED indexVars
  /\ UNCHANGED argVars
  /\ UNCHANGED <<warnings, reverse, stderr, ci, impacted_modules, distances, queue,
                 changed_leaves, outcome>>

\* A bail that looks at the index's warnings only, which C9 rules out.
Escalates_IndexWarningsOnly == warn_as_error /\ index_warnings # <<>>

\* Whether impacted_tests bails (graph.rs:170).
Escalates == warn_as_error /\ warnings # <<>>

\* graph.rs:170-177: the call fails with the number of warnings and the first
\* of them, or returns the tests.
Return ==
  /\ pc = "return"
  /\ outcome' = IF Escalates
                  THEN [kind |-> "Err", count |-> Len(warnings), first |-> Some(warnings[1])]
                  ELSE [kind |-> "Ok", count |-> 0, first |-> None]
  /\ pc' = "done"
  /\ UNCHANGED <<fs, first_run, pure_call, pure_result>>
  /\ UNCHANGED indexVars
  /\ UNCHANGED argVars
  /\ UNCHANGED <<warnings, reverse, stderr, ci, impacted_modules, distances, queue,
                 changed_leaves, tests>>

\* After a call has returned its list: a second call of impacted_tests on the
\* same index with the same changed paths, limit and flags, and with the same
\* cap or none; what the first call returned is kept for comparison.  The
\* flags change nothing of a returned list (quiet guards eprintln! only,
\* warn_as_error the bail only), so the second call is taken with both off.
Rerun ==
  /\ pc = "done"
  /\ outcome.kind = "Ok"
  /\ quiet /\ ~warn_as_error
  /\ first_run = None
  /\ first_run' = Some([tests |-> tests, max |-> max, kind |-> outcome.kind])
  /\ max' \in {max, None}
  /\ warnings' = index_warnings
  /\ reverse' = <<>>
  /\ stderr' = <<>>
  /\ ci' = 1
  /\ impacted_modules' = {}
  /\ distances' = <<>>
  /\ queue' = <<>>
  /\ changed_leaves' = {}
  /\ tests' = <<>>
  /\ outcome' = [kind |-> "none", count |-> 0, first |-> None]
  /\ pc' = "reverse"
  /\ UNCHANGED <<fs, pure_call, pure_result>>
  /\ UNCHANGED indexVars
  /\ UNCHANGED <<changed, distance_limit, quiet, warn_as_error>>

Next ==
  \/ \E p \in FileUniverse : ScanFile(p)
  \/ BuildDone
  \/ Call
  \/ ReverseGraph
  \/ Seed
  \/ Bfs
  \/ Select
  \/ SortTruncate
  \/ Return

Spec == Init /\ [][Next]_vars

NextTwice == Next \/ Rerun

SpecTwice == Init /\ [][NextTwice]_vars

(***************************************************************************)
(* What the properties below speak of.                                     *)
(***************************************************************************)
\* The call has returned its list.
Returned == pc = "done" /\ outcome.kind = "Ok"

\* The paths of the returned list.
OutputPaths == {tests[i].path : i \in 1..Len(tests)}

\* The seed modules of the changed paths.
Seeds ==
  {Unwrap(SeedOf(changed[i])) : i \in {j \in 1..Len(changed) : IsSome(SeedOf(changed[j]))}}

\* The modules of the index one of whose recorded imports resolves to t.
Importers(t) ==
  {m \in DOMAIN modules :
     \E i \in 1..Len(modules[m].imports) :
       ResolveChain(modules[m].imports[i]) = Some(t)}

\* The modules within k reverse-import edges of the modules S.
RECURSIVE WithinOf(_, _)
WithinOf(S, k) ==
  IF k = 0 THEN S
  ELSE LET near == WithinOf(S, k - 1) IN near \cup UNION {Importers(t) : t \in near}

\* The modules reachable from S by zero or more reverse-import edges (a path
\* without repetition has at most as many edges as the index has modules).
ReachableFrom(S) == WithinOf(S, Cardinality(DOMAIN modules))

\* The modules of the index whose file is a test file, and the output path of one.
TestModules == {m \in DOMAIN modules : is_test_file(modules[m].path)}

OutputPathOf(m) == PathStr(modules[m].path)

C2_NothingBeyondLimit ==
  IsSome(distance_limit) =>
    LET L == Unwrap(distance_limit)
    IN  /\ \A m \in impacted_modules : distances[m] <= L
        /\ \A i \in 1..Len(tests) : tests[i].distance <= L
        /\ pc = "done" =>
             \A m \in TestModules \ WithinOf(Seeds, L) : OutputPathOf(m) \notin OutputPaths

\* C2's case: with limit 1 a test at distance 1 is returned, and a test that
\* is reachable only over two edges is left out.
C2_Witness ==
  /\ Returned /\ distance_limit = Some(1)
  /\ \E i \in 1..Len(tests) : tests[i].distance = 1
  /\ \E m \in (TestModules \cap ReachableFrom(Seeds)) \ WithinOf(Seeds, 1) :
       OutputPathOf(m) \notin OutputPaths

\* The changed paths that are indexed test files.
ChangedIndexedTests ==
  {changed[i] : i \in {j \in 1..Len(changed) :
                         changed[j] \in DOMAIN path_to_module /\ is_test_file(changed[j])}}

\* C3 as claimed: with distance_limit = 0 (and no cap) the returned paths are
\* exactly the changed paths that are indexed test files, each once, at
\* distance 0.
C3_ZeroLimitReturnsChangedTests ==
  (Returned /\ distance_limit = Some(0) /\ max = None) =>
    /\ OutputPaths = {PathStr(p) : p \in ChangedIndexedTests}
    /\ Len(tests) = Cardinality(OutputPaths)
    /\ \A i \in 1..Len(tests) : tests[i].distance = 0

\* C3, amended: with distance_limit = 0 (and no cap) the returned paths are
\* exactly the test files of the seed modules, each once, at distance 0: the
\* seed of an indexed changed path is its module, the seed of another changed
\* .py path is what the chain makes of the guessed identity.  No module that
\* is not a seed is returned, and a changed indexed test file whose module
\* records that file is returned under its own path.
C3_ZeroLimitReturnsSeedTests ==
  (Returned /\ distance_limit = Some(0) /\ max = None) =>
    /\ OutputPaths = {OutputPathOf(m) : m \in Seeds \cap TestModules}
    /\ Len(tests) = Cardinality(OutputPaths)
    /\ \A i \in 1..Len(tests) : tests[i].distance = 0
    /\ \A m \in TestModules \ Seeds : OutputPathOf(m) \notin OutputPaths
    /\ \A p \in ChangedIndexedTests :
         modules[path_to_module[p]].path = p => PathStr(p) \in OutputPaths

\* C3's case: with limit 0 a changed indexed test file is returned while a
\* test that imports a seed is not.
C3_Witness ==
  /\ Returned /\ distance_limit = Some(0) /\ max = None
  /\ \E p \in ChangedIndexedTests : PathStr(p) \in OutputPaths
  /\ \E m \in (TestModules \cap WithinOf(Seeds, 1)) \ Seeds :
       OutputPathOf(m) \notin OutputPaths

\* The file name of an output path.
OutputFileName(path) == Last(Split(path, "/"))

\* C4: the file name of every selected path starts with test_ or ends with
\* _test.py, so conftest.py, a package marker and an ordinary module are
\* never selected however they are reached; test_foo.py and pkg_svc_test.py are
\* test files, conftest.py, __init__.py and foo.py are not.
C4_OnlyTestFilesSelected ==
  /\ \A i \in 1..Len(tests) :
       LET filename == OutputFileName(tests[i].path)
       IN  /\ StartsWith(filename, L_test_) \/ EndsWith(filename, L_test_py)
           /\ filename \notin {N_conftest \o L_dot_py, L_init_py, N_foo \o L_dot_py,
                               N_svc \o L_dot_py}
  /\ is_test_file(P_test_foo) /\ is_test_file(P_svc_test)
  /\ ~is_test_file(P_conftest) /\ ~is_test_file(P_pkg_init) /\ ~is_test_file(P_pkg_foo)

\* C4's case: conftest.py, a package marker and an ordinary module have all
\* been visited and tests have been returned.
C4_Witness ==
  /\ Returned
  /\ tests # <<>>
  /\ \E a, b, c \in impacted_modules \cap DOMAIN modules :
       /\ Last(modules[a].path) = N_conftest \o L_dot_py
       /\ Last(modules[b].path) = L_init_py
       /\ Last(modules[c].path) = N_svc \o L_dot_py

\* A changed path handled through the guess (graph.rs:83).
Guessed(path) ==
  path \notin DOMAIN path_to_module /\ Extension(path) = Some(L_py)

\* C5: a changed .py path that is not indexed, from a package whose marker
\* file is indexed, seeds at distance 0 the module the exact / heuristic /
\* truncation chain makes of the identity guessed from the path; and (with a
\* limit that is absent or at least 1, and no cap) every test module that
\* imports the deleted module under that identity is returned.
C5_DeletedPackageModuleSeeds ==
  \A i \in 1..Len(changed) :
    LET path    == changed[i]
        guessed == module_name(path)
        target  == Unwrap(OrElse(OrElse(OrElse(resolve_known_module(guessed),
                                               heuristic_map(guessed)),
                                        trim_to_known_module(guessed)),
                                 Some(guessed)))
    IN  (/\ pc \in {"bfs", "sort", "return", "done"}
         /\ Guessed(path)
         /\ Front(path) \o <<L_init_py>> \in DOMAIN path_to_module) =>
          /\ target \in impacted_modules
          /\ distances[target] = 0
          /\ (/\ Returned
              /\ max = None
              /\ distance_limit = None \/ Unwrap(distance_limit) >= 1) =>
               \A m \in TestModules :
                 (\E k \in 1..Len(modules[m].imports) : modules[m].imports[k] = guessed)
                   => OutputPathOf(m) \in OutputPaths

\* C5's case: pkg/foo.py is deleted, pkg/__init__.py is indexed, and
\* tests/test_foo.py, which has `from pkg import foo`, is returned.
C5_Witness ==
  /\ Returned
  /\ changed = <<P_pkg_foo>>
  /\ ~Exists(P_pkg_foo)
  /\ P_pkg_init \in DOMAIN path_to_module
  /\ PathStr(P_test_foo) \in OutputPaths
  /\ N_pkg \in impacted_modules

\* C6 as claimed: when the only changed path is a deleted top-level module in
\* no package, every test module that imports it by a plain absolute import is
\* returned (no limit, no cap).
C6_DeletedTopLevelModuleImpactsImporters ==
  (/\ Returned /\ distance_limit = None /\ max = None
   /\ Len(changed) = 1 /\ Len(changed[1]) = 1 /\ Guessed(changed[1])) =>
    \A m \in TestModules :
      (\E k \in 1..Len(modules[m].imports) :
         modules[m].imports[k] = module_name(changed[1]))
        => OutputPathOf(m) \in OutputPaths

C10_GuessPathWarningEscalates ==
  (/\ pc = "done" /\ warn_as_error
   /\ \E i \in 1..Len(changed) : Guessed(changed[i])) =>
    outcome.kind = "Err"

\* The position of a TestResult in the order (filename_match, distance, path).
KeyLess(a, b) ==
  \/ a.priority.filename_match < b.priority.filename_match
  \/ /\ a.priority.filename_match = b.priority.filename_match
     /\ \/ a.distance < b.distance
        \/ a.distance = b.distance /\ StrLess(a.path, b.path)

\* C7: a second call on the same index with the same changed paths, cap,
\* limit and flags returns the list the first call returned, whatever the
\* orders in which the maps and sets were walked.
C7_SecondCallSameList ==
  (Returned /\ IsSome(first_run) /\ Unwrap(first_run).max = max) =>
    tests = Unwrap(first_run).tests

\* C7's case: both calls returned two tests of equal priority, which only the
\* path orders.
C7_Witness ==
  /\ Returned /\ IsSome(first_run) /\ Unwrap(first_run).max = max
  /\ Len(changed) = 2
  /\ \E i, j \in 1..Len(tests) : i # j /\ tests[i].priority = tests[j].priority

\* C8: the returned list is strictly ascending in (filename_match, distance,
\* path), so no path occurs twice; with a cap N it has at most N entries and
\* is the first N entries of the list the same call returns without a cap.
C8_AscendingAndCapIsPrefix ==
  Returned =>
    /\ \A i, j \in 1..Len(tests) : i < j => KeyLess(tests[i], tests[j])
    /\ \A i, j \in 1..Len(tests) : i # j => tests[i].path # tests[j].path
    /\ IsSome(max) => Len(tests) <= Unwrap(max)
    /\ (IsSome(first_run) /\ IsSome(Unwrap(first_run).max) /\ max = None) =>
         LET N == Unwrap(Unwrap(first_run).max)
         IN  /\ Len(Unwrap(first_run).tests) <= N
             /\ Unwrap(first_run).tests = SubSeq(tests, 1, Min(N, Len(tests)))

\* C8's case: the capped call returned one test, the uncapped call three.
C8_Witness ==
  /\ Returned /\ max = None
  /\ IsSome(first_run) /\ Unwrap(first_run).max = Some(1)
  /\ Len(Unwrap(first_run).tests) = 1
  /\ Len(tests) >= 2

\* The leaves of the changed modules (the seeds) and of the visited modules.
LeafOf(m) == Last(Split(m, "."))

SeedLeaves == {LeafOf(m) : m \in Seeds}

VisitedLeaves == {LeafOf(m) : m \in impacted_modules}

\* The file name of tests[i] begins with test_<leaf> for one of the leaves.
PrefixMatch(i, leaves) ==
  \E leaf \in leaves : StartsWith(OutputFileName(tests[i].path), L_test_ \o leaf)

\* C11 as claimed: of two returned tests at equal distance, one whose file
\* name begins with test_<leaf> for the leaf of a changed module precedes one
\* whose file name contains no changed module's leaf.
C11_ChangedLeafPrefixPrecedes ==
  Returned =>
    \A i, j \in 1..Len(tests) :
      (/\ tests[i].distance = tests[j].distance
       /\ PrefixMatch(i, SeedLeaves)
       /\ \A leaf \in SeedLeaves : ~Contains(OutputFileName(tests[j].path), leaf))
        => i < j

\* C11, amended: of two returned tests at equal distance, one whose file name
\* begins with test_<leaf> for the leaf of a visited module (changed or only
\* impacted) precedes one whose file name neither begins with test_<leaf> nor
\* contains _<leaf> for the leaf of any visited module.
C11_VisitedLeafPrefixPrecedes ==
  Returned =>
    \A i, j \in 1..Len(tests) :
      (/\ tests[i].distance = tests[j].distance
       /\ PrefixMatch(i, VisitedLeaves)
       /\ ~PrefixMatch(j, VisitedLeaves)
       /\ \A leaf \in VisitedLeaves :
            ~Contains(OutputFileName(tests[j].path), L_underscore \o leaf))
        => i < j

\* C11's case: tests/test_foo.py, named after the changed pkg.foo, precedes
\* tests/pkg_svc_test.py at the same distance, which the path order alone
\* would put first.
C11_Witness ==
  /\ Returned
  /\ \E i, j \in 1..Len(tests) :
       /\ i < j
       /\ tests[i].distance = tests[j].distance
       /\ PrefixMatch(i, SeedLeaves)
       /\ ~PrefixMatch(j, VisitedLeaves)
       /\ \A leaf \in VisitedLeaves :
            ~Contains(OutputFileName(tests[j].path), L_underscore \o leaf)
       /\ StrLess(tests[j].path, tests[i].path)

\* The traversal is over.
Traversed == pc \in {"sort", "return", "done"}

\* The limit is absent or at least 1.
LimitAllowsOneEdge == distance_limit = None \/ Unwrap(distance_limit) >= 1

\* No step of the call overwrites or removes a recorded distance.
DistancesKept ==
  \A m \in DOMAIN distances : m \in DOMAIN distances' /\ distances'[m] = distances[m]

\* C12 as claimed: a recorded distance is never overwritten and never
\* decreases, and every impacted module that directly imports a changed
\* module ends with distance 1 (limit absent or at least 1).
C12_EveryImporterOfChangedAtOne ==
  /\ [][DistancesKept]_vars
  /\ []((Traversed /\ LimitAllowsOneEdge) =>
          \A s \in Seeds : \A m \in Importers(s) \cap impacted_modules : distances[m] = 1)

\* C12, amended: a recorded distance is never overwritten and never
\* decreases; every changed module ends with distance 0, and every module
\* that directly imports a changed module and is not a changed module itself
\* is visited and ends with distance 1 (limit absent or at least 1).
C12_DistancesKeptImportersAtOne ==
  /\ [][DistancesKept]_vars
  /\ [](Traversed => \A s \in Seeds : s \in impacted_modules /\ distances[s] = 0)
  /\ []((Traversed /\ LimitAllowsOneEdge) =>
          \A s \in Seeds : \A m \in Importers(s) \ Seeds :
            m \in impacted_modules /\ distances[m] = 1)

\* C12's case: after the traversal a changed module is imported by another
\* changed module, which stays at distance 0, and by a module that is not
\* changed, at distance 1; a third module stands at distance 2.
C12_Witness ==
  /\ pc = "done" /\ LimitAllowsOneEdge
  /\ \E s \in Seeds :
       /\ \E m \in Importers(s) \cap Seeds : m # s /\ distances[m] = 0
       /\ \E m \in Importers(s) \ Seeds : distances[m] = 1
  /\ \E m \in impacted_modules : distances[m] = 2

(***************************************************************************)
(* resolve_import on its own: one call with arguments drawn from the       *)
(* originating modules, package flags and ImportSpec values below.         *)
(***************************************************************************)
MaxLevel == 4

OriginModules == {N_pkg, Join(<<N_pkg, N_sub>>, "."), Join(<<N_pkg, N_sub, N_mod>>, ".")}

ImportSpecs ==
  [level  : 0..MaxLevel,
   module : {None, Some(<<>>), Some(N_foo), Some(Join(<<N_foo, N_svc>>, "."))},
   name   : {None, Some(N_x), Some(L_star)},
   kind   : {"Import", "ImportFrom"}]

InitResolve ==
  /\ fs = [p \in FileUniverse |-> Absent]
  /\ pc = "pure"
  /\ Blank
  /\ pure_call \in {Some([current_module |-> m, is_package |-> b, spec |-> sp]) :
                      m \in OriginModules, b \in BOOLEAN, sp \in ImportSpecs}
  /\ pure_result = None

\* The call resolve_import(current_module, is_package, &spec).
CallResolveImport ==
  /\ pc = "pure"
  /\ pure_result = None
  /\ pure_result' = Some(resolve_import(Unwrap(pure_call).current_module,
                                        Unwrap(pure_call).is_package,
                                        Unwrap(pure_call).spec))
  /\ UNCHANGED <<fs, pc, pure_call, first_run>>
  /\ UNCHANGED indexVars
  /\ UNCHANGED argVars
  /\ UNCHANGED runVars

SpecResolve == InitResolve /\ [][CallResolveImport]_vars

\* The components of the target as the specification's algorithm builds them.
TargetComponents(current_module, is_package, spec) ==
  LET components == Split(current_module, ".")
      removed    == IF spec.level = 0 THEN Len(components)
                    ELSE IF is_package /\ spec.level = 1 THEN 0
                    ELSE Min(spec.level, Len(components))
      base       == [i \in 1..(Len(components) - removed) |-> components[i]]
      ofModule   == IF spec.module = None \/ spec.module = Some(<<>>)
                      THEN <<>> ELSE Split(Unwrap(spec.module), ".")
      ofName     == IF spec.kind = "ImportFrom" /\ spec.name # None /\ spec.name # Some(L_star)
                      THEN <<Unwrap(spec.name)>> ELSE <<>>
  IN  base \o ofModule \o ofName

\* What one call returned for given arguments.
Resolved(current_module, is_package, spec, result) ==
  /\ pure_call = Some([current_module |-> current_module, is_package |-> is_package,
                       spec |-> spec])
  /\ pure_result = Some(result)

\* C13: resolve_import returns None exactly when the components the
\* specification's algorithm builds are none, and else these components
\* joined by dots; so pkg.sub.mod with level 1 and name x gives pkg.sub.x,
\* with level 2 pkg.x, and the package marker pkg.sub with level 1 pkg.sub.x.
C13_ResolveImportAsSpecified ==
  (pc = "pure" /\ IsSome(pure_result)) =>
    LET call       == Unwrap(pure_call)
        result     == Unwrap(pure_result)
        components == TargetComponents(call.current_module, call.is_package, call.spec)
        mod        == Join(<<N_pkg, N_sub, N_mod>>, ".")
        sub        == Join(<<N_pkg, N_sub>>, ".")
    IN  /\ result = None <=> components = <<>>
        /\ result # None =>
             /\ Split(Unwrap(result), ".") = components
             /\ Unwrap(result) = Join(components, ".")
        /\ call = [current_module |-> mod, is_package |-> FALSE,
                   spec |-> FromImport(1, None, N_x)]
             => result = Some(Join(<<N_pkg, N_sub, N_x>>, "."))
        /\ call = [current_module |-> mod, is_package |-> FALSE,
                   spec |-> FromImport(2, None, N_x)]
             => result = Some(Join(<<N_pkg, N_x>>, "."))
        /\ call = [current_module |-> sub, is_package |-> TRUE,
                   spec |-> FromImport(1, None, N_x)]
             => result = Some(Join(<<N_pkg, N_sub, N_x>>, "."))

\* C13's case: the package marker pkg.sub, level 1 and name x have given
\* pkg.sub.x.
C13_Witness ==
  Resolved(Join(<<N_pkg, N_sub>>, "."), TRUE, FromImport(1, None, N_x),
           Some(Join(<<N_pkg, N_sub, N_x>>, ".")))

\* The length of a shortest path of reverse-import edges from a seed to m.
ShortestDistance(m) ==
  CHOOSE k \in 0..Cardinality(DOMAIN modules) :
    m \in WithinOf(Seeds, k) /\ \A j \in 0..(k - 1) : m \notin WithinOf(Seeds, j)

\* C14: when the traversal is over, the visited modules are the modules
\* within L reverse-import edges of a seed (all that are reachable when there
\* is no limit), and the distance recorded for each is the length of a
\* shortest path from a seed to it; the changed paths are taken in every
\* order and a module's importers in every order the set may yield them.
C14_DistancesAreShortest ==
  Traversed =>
    /\ DOMAIN distances = impacted_modules
    /\ impacted_modules =
         IF IsSome(distance_limit) THEN WithinOf(Seeds, Unwrap(distance_limit))
                                   ELSE ReachableFrom(Seeds)
    /\ \A m \in impacted_modules : distances[m] = ShortestDistance(m)

\* C14's case: tests/pkg_svc_test.py imports the changed pkg.foo and also
\* pkg.svc, which imports pkg.foo, so paths of one and of two edges lead to
\* it, and it stands at distance 1; with limit 1 the modules two edges away
\* are not visited.
C14_Witness ==
  /\ pc = "done" /\ distance_limit = Some(1)
  /\ \E s \in Seeds : \E m \in Importers(s) \ Seeds :
       /\ \E n \in Importers(s) \ Seeds : n # m /\ m \in Importers(n)
       /\ distances[m] = 1
  /\ ReachableFrom(Seeds) \ WithinOf(Seeds, 1) # {}

\* The raw seeds: the identities guessed for changed .py paths that are not
\* indexed and that match no known module.
RawSeeds ==
  {module_name(changed[i]) :
     i \in {j \in 1..Len(changed) :
              Guessed(changed[j]) /\ ResolveChain(module_name(changed[j])) = None}}

GraphBuilt == pc \in {"seed", "done"}

\* The recorded imports, as (importing module, position) pairs, that match no
\* known module, and those of them whose first component is the first
\* component of an indexed module.
UnresolvedImports ==
  {mk \in UNION {{<<m, k>> : k \in 1..Len(modules[m].imports)} : m \in DOMAIN modules} :
     LET import == modules[mk[1]].imports[mk[2]]
     IN  /\ import \notin DOMAIN modules
         /\ heuristic_map(import) = None
         /\ trim_to_known_module(import) = None}

InProjectUnresolved ==
  {mk \in UnresolvedImports :
     \E n \in DOMAIN modules :
       Split(n, ".")[1] = Split(modules[mk[1]].imports[mk[2]], ".")[1]}

\* The warnings the pass over the imports has added.
PassWarnings == SubSeq(warnings, Len(index_warnings) + 1, Len(warnings))

\* C16: once the reverse graph is built, an import that matches no known
\* module has added no edge (the importers recorded for a target are the
\* modules with an import that resolves to it); each unresolved import whose
\* first component is that of an indexed module has added one warning naming
\* the import and the importing module, and no other import has added one.
C16_UnresolvedImportWarnings ==
  GraphBuilt =>
    /\ \A t \in DOMAIN reverse : reverse[t] = Importers(t) /\ reverse[t] # {}
    /\ \A mk \in UnresolvedImports :
         \A t \in DOMAIN reverse :
           mk[1] \in reverse[t] =>
             \E k \in 1..Len(modules[mk[1]].imports) :
               k # mk[2] /\ ResolveChain(modules[mk[1]].imports[k]) = Some(t)
    /\ Len(PassWarnings) = Cardinality(InProjectUnresolved)
    /\ \A mk \in InProjectUnresolved :
         Cardinality({k \in 1..Len(PassWarnings) :
                        PassWarnings[k] = Warning("Unresolved import",
                                                  modules[mk[1]].imports[mk[2]], mk[1])})
           = Cardinality({nk \in InProjectUnresolved :
                            /\ nk[1] = mk[1]
                            /\ modules[nk[1]].imports[nk[2]] = modules[mk[1]].imports[mk[2]]})

\* C16's case: the graph is built from an index with an unresolved import
\* that was reported, an unresolved import that was dropped silently, and an
\* import that resolved.
C16_Witness ==
  /\ GraphBuilt
  /\ InProjectUnresolved # {}
  /\ UnresolvedImports \ InProjectUnresolved # {}
  /\ PassWarnings # <<>>
  /\ DOMAIN reverse # {}

(***************************************************************************)
(* The index alone: build over the lib/ layout, then one candidate through *)
(* the chain of graph.rs:38-41.                                            *)
(***************************************************************************)
ChainCandidates ==
  {Join(<<N_lib, N_sub, N_mod>>, "."), Join(<<N_lib, N_sub>>, "."), N_lib,
   Join(<<N_sub, N_mod>>, "."), N_sub, Join(<<N_sub, N_mod, N_x>>, "."),
   Join(<<N_lib, N_sub, N_x>>, "."), N_x}

InitBuild ==
  /\ fs \in Trees(LibFiles, [p \in LibFiles |-> LibContents(p)])
  /\ pc = "build"
  /\ Blank
  /\ pure_call \in {Some(c) : c \in ChainCandidates}
  /\ pure_result = None

\* One candidate through the chain over the finished index.
CallResolveChain ==
  /\ pc = "built"
  /\ pure_result = None
  /\ pure_result' = Some(ResolveChain(Unwrap(pure_call)))
  /\ UNCHANGED <<fs, pc, pure_call, first_run>>
  /\ UNCHANGED indexVars
  /\ UNCHANGED argVars
  /\ UNCHANGED runVars

NextBuild ==
  \/ \E p \in FileUniverse : ScanFile(p)
  \/ BuildDone
  \/ CallResolveChain

SpecBuild == InitBuild /\ [][NextBuild]_vars

ChainAnswered == pc = "built" /\ IsSome(pure_result)

\* The module the index records for the file or the package marker at the
\* candidate's dotted path, when that file exists.
ByPath(candidate) ==
  LET parts == Split(candidate, ".")
      file  == Front(parts) \o <<Last(parts) \o L_dot_py>>
      init  == parts \o <<L_init_py>>
  IN  IF Exists(file) /\ file \in DOMAIN path_to_module THEN Some(path_to_module[file])
      ELSE IF Exists(init) /\ init \in DOMAIN path_to_module THEN Some(path_to_module[init])
      ELSE None

\* The lengths of the proper dotted prefixes of the candidate that are keys
\* of modules.
KnownPrefixes(candidate) ==
  LET parts == Split(candidate, ".")
  IN  {k \in 1..(Len(parts) - 1) : Join(SubSeq(parts, 1, k), ".") \in DOMAIN modules}

LongestKnownPrefix(candidate) ==
  LET parts == Split(candidate, ".")
      k     == CHOOSE n \in KnownPrefixes(candidate) :
                 \A o \in KnownPrefixes(candidate) : o <= n
  IN  Join(SubSeq(parts, 1, k), ".")

\* C17: a candidate is matched by the first step that succeeds of exact key,
\* path heuristic and truncation: a key of modules resolves to itself,
\* otherwise the path heuristic's module is the answer when it has one,
\* otherwise the longest proper dotted prefix that is a key of modules, and
\* otherwise nothing; an answer is always a key of modules.
C17_ChainFirstSuccess ==
  ChainAnswered =>
    LET c == Unwrap(pure_call)
        r == Unwrap(pure_result)
    IN  /\ c \in DOMAIN modules => r = Some(c)
        /\ c \notin DOMAIN modules /\ IsSome(ByPath(c)) => r = ByPath(c)
        /\ c \notin DOMAIN modules /\ ~IsSome(ByPath(c)) /\ KnownPrefixes(c) # {}
             => r = Some(LongestKnownPrefix(c))
        /\ c \notin DOMAIN modules /\ ~IsSome(ByPath(c)) /\ KnownPrefixes(c) = {}
             => r = None
        /\ IsSome(r) => Unwrap(r) \in DOMAIN modules

\* C17's case: lib.sub.mod is no key of modules, its file is indexed as
\* sub.mod and its prefix lib is a key; the chain answers sub.mod.
C17_Witness ==
  /\ ChainAnswered
  /\ Unwrap(pure_call) = Join(<<N_lib, N_sub, N_mod>>, ".")
  /\ N_lib \in DOMAIN modules
  /\ Unwrap(pure_call) \notin DOMAIN modules
  /\ Unwrap(pure_result) = Some(Join(<<N_sub, N_mod>>, "."))

(***************************************************************************)
(* priority() alone (priority.rs:10-31).                                   *)
(***************************************************************************)
MaxDistance == 2

N_bar == <<"b", "a", "r">>

N_o == <<"o">>

ScoredPaths ==
  {PathStr(P_test_foo), PathStr(P_svc_test), PathStr(P_conftest), PathStr(P_top_foo),
   PathStr(<<N_tests, <<"i", "n", "t", "e", "g", "r", "a", "t", "i", "o", "n", "_">>
                        \o N_bar \o L_test_py>>),
   PathStr(<<N_tests, <<"o", "t", "h", "e", "r">> \o L_dot_py>>),
   PathStr(<<N_tests, N_foo \o N_bar \o L_dot_py>>)}

LeafUniverse == {N_foo, N_bar, N_svc, N_o, <<>>}

InitPriority ==
  /\ fs = [p \in FileUniverse |-> Absent]
  /\ pc = "priority"
  /\ Blank
  /\ pure_call \in {Some([path |-> p, distance |-> d, changed_leaves |-> l]) :
                      p \in ScoredPaths, d \in 0..MaxDistance, l \in SUBSET LeafUniverse}
  /\ pure_result = None

\* The call priority(path, distance, &changed_leaves): the HashSet yields its
\* leaves in an order the code does not choose.
CallPriority ==
  /\ pc = "priority"
  /\ pure_result = None
  /\ \E scan \in Orders(Unwrap(pure_call).changed_leaves) :
       pure_result' = Some(priority(Unwrap(pure_call).path, Unwrap(pure_call).distance, scan))
  /\ UNCHANGED <<fs, pc, pure_call, first_run>>
  /\ UNCHANGED indexVars
  /\ UNCHANGED argVars
  /\ UNCHANGED runVars

SpecPriority == InitPriority /\ [][CallPriority]_vars

\* The rule for filename_match, over the leaves as a set.
FilenameMatch(filename, leaves) ==
  IF \E leaf \in leaves : \/ StartsWith(filename, L_test_ \o leaf)
                           \/ Contains(filename, L_underscore \o leaf)
    THEN 0
  ELSE IF \E leaf \in leaves : Contains(filename, leaf) THEN 1
  ELSE 2

\* C18: priority returns the distance it was given, and filename_match 0 when
\* the file name begins with test_<leaf> or contains _<leaf> for some leaf,
\* else 1 when it contains some leaf, else 2, whatever the order in which the
\* leaves were scanned.
C18_PriorityAsSpecified ==
  pc = "priority" /\ IsSome(pure_result) =>
    LET call == Unwrap(pure_call)
        p    == Unwrap(pure_result)
    IN  /\ p.distance = call.distance
        /\ p.filename_match = FilenameMatch(Last(Split(call.path, "/")), call.changed_leaves)

\* C18's case: the leaf o is in the file name and the leaf foo scores 0, so
\* a scan that meets o first must go on to foo.
C18_Witness ==
  /\ pc = "priority"
  /\ IsSome(pure_result)
  /\ Unwrap(pure_call).path = PathStr(P_test_foo)
  /\ Unwrap(pure_call).changed_leaves = {N_o, N_foo, N_bar}
  /\ Unwrap(pure_call).distance = MaxDistance
  /\ Unwrap(pure_result) = [filename_match |-> 0, distance |-> MaxDistance]

(***************************************************************************)
(* Paths that are not valid UTF-8 (index.rs:77-80).                        *)
(***************************************************************************)
\* The candidate files the walk has met whose path is not valid UTF-8.
NonUtf8Met == {p \in scanned : is_python_file(p) /\ ~IsUtf8(p)}

\* C19: a path that is not valid UTF-8 is fatal where it is met: a build
\* whose walk has met such a file does not return an index.
C19_NonUtf8PathIsFatal == NonUtf8Met # {} => pc # "built"

(***************************************************************************)
(* Files that cannot be read or parsed (index.rs:54-61, 82-91).            *)
(***************************************************************************)
\* The candidate files of the tree: python files with a representable path.
CandidateFiles == {p \in FileUniverse : Exists(p) /\ is_python_file(p) /\ IsUtf8(p)}

BadFiles == {p \in CandidateFiles : fs[p].kind \in {"unreadable", "garbled"}}

\* The warnings of the index that name the file.
WarningsAbout(p) ==
  {k \in 1..Len(index_warnings) : index_warnings[k].subject = PathStr(p)}

CycleContents(p) ==
  CASE p = P_pkg_init -> {Source(<<>>)}
    [] p = P_pkg_foo  -> {Source(<<>>),
                          Source(<<FromImport(1, None, N_foo), FromImport(1, None, N_svc)>>)}
    [] p = P_pkg_svc  -> {Absent, Source(<<FromImport(1, None, N_foo)>>)}
    [] p = P_test_foo -> {Source(<<FromImport(0, Some(N_pkg), N_foo)>>)}
    [] p = P_svc_test -> {Absent, Source(<<FromImport(0, Some(N_pkg), N_svc)>>)}
    [] p = P_conftest -> {Absent}

InitCycle ==
  /\ fs \in Trees(MainFiles, [p \in MainFiles |-> CycleContents(p)])
  /\ pc = "build"
  /\ Blank
  /\ pure_call = None
  /\ pure_result = None

\* The loop runs: while the queue holds a module the next pass is taken, and
\* the selection follows when it is empty.
SpecTraversal == InitCycle /\ [][Next]_vars /\ WF_vars(Bfs) /\ WF_vars(Select)

\* A step of the seeding loop or of the traversal loop.
LoopStep == pc = "seed" \/ (pc = "bfs" /\ pc' = "bfs")

\* What a step of the loops puts at the back of the queue: a traversal step
\* takes the front off first.
Enqueued ==
  LET kept == IF pc = "bfs" THEN Len(queue) - 1 ELSE Len(queue)
  IN  SubSeq(queue', kept + 1, Len(queue'))

\* A step of the loops keeps the queue behind what it dequeues, and enqueues
\* exactly the modules it adds to the visited set, each once.
EnqueuedWhenFirstVisited ==
  LoopStep =>
    /\ pc = "bfs" => queue # <<>>
    /\ Len(queue') >= (IF pc = "bfs" THEN Len(queue) - 1 ELSE Len(queue))
    /\ SubSeq(queue', 1, Len(queue') - Len(Enqueued))
         = (IF pc = "bfs" THEN Tail(queue) ELSE queue)
    /\ impacted_modules \subseteq impacted_modules'
    /\ {Enqueued[i] : i \in 1..Len(Enqueued)} = impacted_modules' \ impacted_modules
    /\ Len(Enqueued) = Cardinality(impacted_modules' \ impacted_modules)

\* C21: a module is enqueued only when it is first added to the visited set,
\* and the traversal loop ends: once the loop is entered the queue empties and
\* the selection follows.
C21_TraversalTerminates ==
  /\ [][EnqueuedWhenFirstVisited]_vars
  /\ (pc = "bfs") ~> (pc = "sort" /\ queue = <<>>)

\* C21's case: the traversal has ended over a graph in which pkg.foo imports
\* itself and lies on a cycle with pkg.svc, all of it visited without a limit.
C21_Witness ==
  /\ pc = "sort"
  /\ queue = <<>>
  /\ distance_limit = None
  /\ \E m \in DOMAIN reverse : m \in reverse[m]
  /\ \E m, n \in DOMAIN reverse :
       m # n /\ m \in reverse[n] /\ n \in reverse[m] /\ {m, n} \subseteq impacted_modules

(***************************************************************************)
(* The scores of the returned tests (graph.rs:124-145).                    *)
(***************************************************************************)
\* The visited modules of the index whose file is the test at the path.
OwnModules(path) ==
  {m \in impacted_modules \cap DOMAIN modules : OutputPathOf(m) = path}

\* C22: no test of the result scores 2: the leaf set holds the last dotted
\* component of the test's own module, that leaf is a substring of the test's
\* file name, and the score is 0 or 1.
C22_NoReturnedTestScoresTwo ==
  Traversed =>
    \A i \in 1..Len(tests) :
      /\ \E m \in OwnModules(tests[i].path) :
           /\ LeafOf(m) \in changed_leaves
           /\ Contains(OutputFileName(tests[i].path), LeafOf(m))
      /\ tests[i].priority.filename_match \in {0, 1}

\* C22's case: the only visited module is the returned test's own, and its
\* leaf alone gives the score 1.
C22_Witness ==
  /\ Returned
  /\ impacted_modules = {module_name(P_test_foo)}
  /\ Len(tests) = 1
  /\ tests[1].path = PathStr(P_test_foo)
  /\ changed_leaves = {N_test_foo}
  /\ tests[1].priority.filename_match = 1

====
